---- MODULE Spec2Model ----
(***************************************************************************)
(* A model of hashrock/vue-ai-sdk-chat: the server's sandboxed file tools  *)
(* (server/index.ts and the earlier server kept beside it), the wire       *)
(* encoder, and the client's stream decoder and transcript aggregator      *)
(* (src/components/ChatInterface.vue, handleSubmit).                       *)
(*                                                                         *)
(* Strings are sequences of one-character strings, so that prefix tests,   *)
(* splitting and escaping are computed the way the code computes them.     *)
(***************************************************************************)
EXTENDS Integers, Sequences, FiniteSets, TLC

VARIABLES
    serverBuild,   \* which of the two server sources runs: "index.ts" or "part_000"
    filePath,      \* SpecSandbox: the path argument under test
    validated,     \* SpecSandbox: <<>> before the call, <<outcome of validatePath>> after
    fs,            \* the file system: absolute path |-> node
    lastTool,      \* the executor that ran last ("" before the first call)
    lastArgs,      \* the path arguments it was given
    lastOutcome,   \* what that call produced: a returned envelope or a thrown error
    lastAccess,    \* the absolute paths that call handed to fs.*
    fsBefore,      \* history: the file system that call found
    written,       \* history: <<path, content>> of the successful write_file calls
                   \* that no later write, delete or rename of the path followed
    clientBuild,   \* which of the two script blocks of ChatInterface.vue runs
    messages,      \* messages.value: the transcript
    input,         \* input.value
    isLoading,     \* isLoading.value
    pc,            \* where handleSubmit stands: "idle", "fetching" or "reading"
    requestBody,   \* the messages of the last request's body
    assistantIndex,\* the place in messages of the turn's assistantMessage (0: none)
    buffer,        \* handleSubmit's buffer: the text after the last line feed
    decoderPending,\* the bytes TextDecoder holds of an incomplete character
    decoded,       \* history: the objects JSON.parse returned in this turn
    loggedErrors,  \* history: the lines console.error reported in this turn
    received,      \* history: the text the decoder returned in this turn
    abandoned,     \* history: the component was unmounted during a turn
    sent,          \* history: the lines delivered to the client in this turn
    wire,          \* the bytes the server enqueued and the client has not read
    serverPc,      \* the response stream: "none", "streaming" or "closed"
    streamError,   \* whether iterating result.fullStream threw
    produced,      \* history: the chunks result.fullStream yielded
    enqueued,      \* history: the bytes handed to controller.enqueue in this turn
    cutsSeen,      \* history: where this turn's chunks ended: inside a "line", the
                   \* "marker" or a "character"
    agentPc,       \* streamText's loop: "idle", "inferring", "executing" or "done"
    stepCount,     \* the steps of the loop so far
    stepCalls,     \* the tool calls the current step requested
    toolCallsRun   \* history: the tool calls executed in this request

sandboxVars == <<filePath, validated>>
toolVars == <<fs, lastTool, lastArgs, lastOutcome, lastAccess, fsBefore, written>>
clientVars == <<clientBuild, messages, input, isLoading, pc, requestBody,
                assistantIndex, buffer, decoderPending, decoded, loggedErrors,
                received, abandoned>>
wireVars == <<wire, serverPc, streamError, produced, cutsSeen, enqueued>>
agentVars == <<agentPc, stepCount, stepCalls, toolCallsRun>>
vars == <<serverBuild, sandboxVars, toolVars, agentVars, clientVars, sent, wireVars>>

(***************************************************************************)
(* Bounds                                                                  *)
(***************************************************************************)
MaxPathLen == 5
MaxLines == 4
MaxEvents == 2
MaxTextLines == 2
MaxMessages == 3
MaxCallsPerStep == 2
MaxTurns == 2

(***************************************************************************)
(* Strings                                                                 *)
(***************************************************************************)
\* String.prototype.startsWith
startsWith(s, prefix) ==
    /\ Len(s) >= Len(prefix)
    /\ SubSeq(s, 1, Len(prefix)) = prefix

\* String.prototype.split(sep) for a one-character separator: "a/b/" gives
\* <<"a", "b", "">> and "" gives <<"">>.
RECURSIVE splitFrom(_, _, _, _)
splitFrom(s, sep, done, current) ==
    IF s = <<>> THEN Append(done, current)
    ELSE IF Head(s) = sep
    THEN splitFrom(Tail(s), sep, Append(done, current), <<>>)
    ELSE splitFrom(Tail(s), sep, done, Append(current, Head(s)))

split(s, sep) == splitFrom(s, sep, <<>>, <<>>)

\* All strings over alphabet of length at most n.
RECURSIVE StringsUpTo(_, _)
StringsUpTo(alphabet, n) ==
    IF n = 0 THEN { <<>> }
    ELSE LET shorter == StringsUpTo(alphabet, n - 1)
         IN  shorter \cup { Append(s, c) : s \in shorter, c \in alphabet }

(***************************************************************************)
(* path.resolve / path.dirname (POSIX), as validatePath and the executors  *)
(* use them.  LOCAL_PATH is an absolute directory.                         *)
(***************************************************************************)
LOCAL_PATH == <<"/", "r">>

\* normalizeString: drops empty and "." segments; ".." pops a segment and is
\* ignored at the file-system root.
RECURSIVE normalizeSegs(_, _)
normalizeSegs(segs, stack) ==
    IF segs = <<>> THEN stack
    ELSE LET h == Head(segs)
         IN  IF h = <<>> \/ h = <<".">>
             THEN normalizeSegs(Tail(segs), stack)
             ELSE IF h = <<".", ".">>
             THEN normalizeSegs(Tail(segs),
                                IF stack = <<>> THEN stack
                                ELSE SubSeq(stack, 1, Len(stack) - 1))
             ELSE normalizeSegs(Tail(segs), Append(stack, h))

RECURSIVE joinSegs(_)
joinSegs(segs) ==
    IF segs = <<>> THEN <<>>
    ELSE <<"/">> \o Head(segs) \o joinSegs(Tail(segs))

absolutePath(segs) == IF segs = <<>> THEN <<"/">> ELSE joinSegs(segs)

segments(p) == normalizeSegs(split(p, "/"), <<>>)

\* path.resolve(base, p): arguments are taken right to left until one is
\* absolute; an empty argument is skipped.
resolve(base, p) ==
    IF p # <<>> /\ Head(p) = "/"
    THEN absolutePath(segments(p))
    ELSE absolutePath(segments(base \o <<"/">> \o p))

\* path.dirname of a resolved absolute path
dirname(p) ==
    LET segs == segments(p)
    IN  IF segs = <<>> THEN <<"/">>
        ELSE absolutePath(SubSeq(segs, 1, Len(segs) - 1))

(***************************************************************************)
(* validatePath.  A call either returns a path or throws.                  *)
(***************************************************************************)
AccessDenied == "Access denied: Path is outside of LOCAL_PATH"

Returned(v) == [threw |-> FALSE, value |-> v, message |-> ""]
Thrown(msg) == [threw |-> TRUE, value |-> <<>>, message |-> msg]

\* server/index.ts: resolution only, no containment check
validatePath_index(p) == Returned(resolve(LOCAL_PATH, p))

\* the earlier server with the root itself outside the prefix test
validatePath_part000_belowOnly(p) ==
    LET resolvedPath == resolve(LOCAL_PATH, p)
        normalizedLocalPath == resolve(LOCAL_PATH, <<>>)
    IN  IF ~ startsWith(resolvedPath, normalizedLocalPath \o <<"/">>)
        THEN Thrown(AccessDenied)
        ELSE Returned(resolvedPath)

\* the earlier server: resolution followed by a string-prefix check
validatePath_part000(p) ==
    LET resolvedPath == resolve(LOCAL_PATH, p)
        normalizedLocalPath == resolve(LOCAL_PATH, <<>>)
    IN  IF ~ startsWith(resolvedPath, normalizedLocalPath)
        THEN Thrown(AccessDenied)
        ELSE Returned(resolvedPath)

validatePath(p) ==
    IF serverBuild = "index.ts" THEN validatePath_index(p)
    ELSE validatePath_part000(p)

ServerBuilds == {"index.ts", "part_000"}

(***************************************************************************)
(* The file system under the tools: fs maps each existing absolute path to *)
(* its node.  The fs/promises calls are modelled by their POSIX outcomes;  *)
(* a call returns [err, fs, content, files], err = "" on success and the   *)
(* error code otherwise (the thrown error's message).                      *)
(***************************************************************************)
Dir == [type |-> "dir", content |-> ""]
File(c) == [type |-> "file", content |-> c]

\* fs is keyed by a path's segments: <<>> is "/", <<"r">> is "/r".
key(p) == segments(p)

exists(f, k) == k \in DOMAIN f
isDir(f, k) == exists(f, k) /\ f[k].type = "dir"
isFile(f, k) == exists(f, k) /\ f[k].type = "file"

parentKey(k) == IF k = <<>> THEN k ELSE SubSeq(k, 1, Len(k) - 1)

properAncestors(k) == { SubSeq(k, 1, i) : i \in 0 .. (Len(k) - 1) }

fileAncestor(f, k) == \E a \in properAncestors(k) : isFile(f, a)

\* q is k or lies below k
below(k, q) == Len(q) >= Len(k) /\ SubSeq(q, 1, Len(k)) = k

children(f, k) == { q \in DOMAIN f : Len(q) = Len(k) + 1 /\ below(k, q) }

FsOk(f) == [err |-> "", fs |-> f, content |-> <<>>, files |-> {}]
FsErr(f, code) == [err |-> code, fs |-> f, content |-> <<>>, files |-> {}]

\* fs.readFile(p, 'utf-8')
fsReadFile(f, p, eacces) ==
    LET k == key(p)
    IN  IF eacces THEN FsErr(f, "EACCES")
        ELSE IF fileAncestor(f, k) THEN FsErr(f, "ENOTDIR")
        ELSE IF ~ exists(f, k) THEN FsErr(f, "ENOENT")
        ELSE IF isDir(f, k) THEN FsErr(f, "EISDIR")
        ELSE [FsOk(f) EXCEPT !.content = <<f[k].content>>]

\* fs.mkdir(p, { recursive: true })
fsMkdir(f, p, eacces) ==
    LET k == key(p)
    IN  IF eacces THEN FsErr(f, "EACCES")
        ELSE IF isDir(f, k) THEN FsOk(f)
        ELSE IF isFile(f, k) THEN FsErr(f, "EEXIST")
        ELSE IF fileAncestor(f, k) THEN FsErr(f, "ENOTDIR")
        ELSE FsOk(f @@ [q \in properAncestors(k) \cup {k} |-> Dir])

\* fs.writeFile(p, content, 'utf-8')
fsWriteFile(f, p, c, eacces) ==
    LET k == key(p)
    IN  IF eacces THEN FsErr(f, "EACCES")
        ELSE IF fileAncestor(f, k) THEN FsErr(f, "ENOTDIR")
        ELSE IF ~ exists(f, parentKey(k)) THEN FsErr(f, "ENOENT")
        ELSE IF isDir(f, k) THEN FsErr(f, "EISDIR")
        ELSE FsOk((k :> File(c)) @@ f)

\* fs.readdir(p, { withFileTypes: true })
fsReaddir(f, p, eacces) ==
    LET k == key(p)
    IN  IF eacces THEN FsErr(f, "EACCES")
        ELSE IF fileAncestor(f, k) THEN FsErr(f, "ENOTDIR")
        ELSE IF ~ exists(f, k) THEN FsErr(f, "ENOENT")
        ELSE IF isFile(f, k) THEN FsErr(f, "ENOTDIR")
        ELSE [FsOk(f) EXCEPT !.files =
                { [name |-> q[Len(q)], isDirectory |-> isDir(f, q)] : q \in children(f, k) }]

\* fs.unlink(p)
fsUnlink(f, p, eacces) ==
    LET k == key(p)
    IN  IF eacces THEN FsErr(f, "EACCES")
        ELSE IF fileAncestor(f, k) THEN FsErr(f, "ENOTDIR")
        ELSE IF ~ exists(f, k) THEN FsErr(f, "ENOENT")
        ELSE IF isDir(f, k) THEN FsErr(f, "EISDIR")
        ELSE FsOk([q \in DOMAIN f \ {k} |-> f[q]])

\* fs.rename(from, to): a file replaces a file, a directory replaces an empty
\* directory, and a directory moves with everything below it.
fsRename(f, from, to, eacces) ==
    LET a == key(from)
        b == key(to)
    IN  IF eacces THEN FsErr(f, "EACCES")
        ELSE IF fileAncestor(f, a) \/ fileAncestor(f, b) THEN FsErr(f, "ENOTDIR")
        ELSE IF ~ exists(f, a) \/ ~ exists(f, parentKey(b)) THEN FsErr(f, "ENOENT")
        ELSE IF a = b THEN FsOk(f)
        ELSE IF isDir(f, a) /\ below(a, b) THEN FsErr(f, "EINVAL")
        ELSE IF isDir(f, a) /\ isFile(f, b) THEN FsErr(f, "ENOTDIR")
        ELSE IF isFile(f, a) /\ isDir(f, b) THEN FsErr(f, "EISDIR")
        ELSE IF isDir(f, b) /\ children(f, b) # {} THEN FsErr(f, "ENOTEMPTY")
        ELSE LET moved == { q \in DOMAIN f : below(a, q) }
                 kept == DOMAIN f \ (moved \cup {b})
                 target(q) == b \o SubSeq(q, Len(a) + 1, Len(q))
             IN  FsOk([q \in kept |-> f[q]] @@
                      [t \in { target(q) : q \in moved } |->
                          f[CHOOSE q \in moved : target(q) = t]])

(***************************************************************************)
(* toolExecutors.  Each executor is one try block and one catch block; an  *)
(* executor's result is [fs, outcome, access]: the file system it leaves,  *)
(* what the call produced, and the paths it handed to fs.*.                *)
(***************************************************************************)
NoOutcome == [kind |-> "none", success |-> FALSE, error |-> "",
              content |-> <<>>, files |-> {}]

\* return { success: true, ... }
SuccessEnvelope(content, files) ==
    [kind |-> "returned", success |-> TRUE, error |-> "",
     content |-> content, files |-> files]

\* catch (error) { return { success: false, error: error.message, ... } }
FailureEnvelope(message) ==
    [kind |-> "returned", success |-> FALSE, error |-> message,
     content |-> <<>>, files |-> {}]

\* an error leaving the executor: the promise rejects
Rejected(message) ==
    [kind |-> "thrown", success |-> FALSE, error |-> message,
     content |-> <<>>, files |-> {}]

ToolResult(f, outcome, access) == [fs |-> f, outcome |-> outcome, access |-> access]

read_file(f, p, fault) ==
    LET fullPath == validatePath(p)
    IN  IF fullPath.threw
        THEN ToolResult(f, FailureEnvelope(fullPath.message), {})
        ELSE LET r == fsReadFile(f, fullPath.value, fault = 1)
             IN  IF r.err # ""
                 THEN ToolResult(f, FailureEnvelope(r.err), {fullPath.value})
                 ELSE ToolResult(f, SuccessEnvelope(r.content, {}), {fullPath.value})

\* write_file without the fs.mkdir of the parent directory
write_file_noParents(f, p, content, fault) ==
    LET fullPath == validatePath(p)
    IN  IF fullPath.threw
        THEN ToolResult(f, FailureEnvelope(fullPath.message), {})
        ELSE LET w == fsWriteFile(f, fullPath.value, content, fault = 2)
             IN  IF w.err # ""
                 THEN ToolResult(f, FailureEnvelope(w.err), {fullPath.value})
                 ELSE ToolResult(w.fs, SuccessEnvelope(<<>>, {}), {fullPath.value})

write_file(f, p, content, fault) ==
    LET fullPath == validatePath(p)
    IN  IF fullPath.threw
        THEN ToolResult(f, FailureEnvelope(fullPath.message), {})
        ELSE LET parent == dirname(fullPath.value)
                 m == fsMkdir(f, parent, fault = 1)
             IN  IF m.err # ""
                 THEN ToolResult(f, FailureEnvelope(m.err), {parent})
                 ELSE LET w == fsWriteFile(m.fs, fullPath.value, content, fault = 2)
                      IN  IF w.err # ""
                          THEN ToolResult(m.fs, FailureEnvelope(w.err),
                                          {parent, fullPath.value})
                          ELSE ToolResult(w.fs, SuccessEnvelope(<<>>, {}),
                                          {parent, fullPath.value})

list_files(f, p, fault) ==
    LET fullPath == validatePath(p)
    IN  IF fullPath.threw
        THEN ToolResult(f, FailureEnvelope(fullPath.message), {})
        ELSE LET r == fsReaddir(f, fullPath.value, fault = 1)
                 files == { [name |-> e.name,
                             type |-> IF e.isDirectory THEN "directory" ELSE "file"]
                            : e \in r.files }
             IN  IF r.err # ""
                 THEN ToolResult(f, FailureEnvelope(r.err), {fullPath.value})
                 ELSE ToolResult(f, SuccessEnvelope(<<>>, files), {fullPath.value})

\* delete_file with its catch block removed
delete_file_uncaught(f, p, fault) ==
    LET fullPath == validatePath(p)
    IN  IF fullPath.threw
        THEN ToolResult(f, Rejected(fullPath.message), {})
        ELSE LET r == fsUnlink(f, fullPath.value, fault = 1)
             IN  IF r.err # ""
                 THEN ToolResult(f, Rejected(r.err), {fullPath.value})
                 ELSE ToolResult(r.fs, SuccessEnvelope(<<>>, {}), {fullPath.value})

\* delete_file with fs.rm(fullPath, { recursive: true }): a directory goes
\* with everything below it
delete_file_recursive(f, p, fault) ==
    LET fullPath == validatePath(p)
    IN  IF fullPath.threw
        THEN ToolResult(f, FailureEnvelope(fullPath.message), {})
        ELSE IF fault # 1 /\ isDir(f, key(fullPath.value))
        THEN ToolResult([q \in { d \in DOMAIN f : ~ below(key(fullPath.value), d) } |-> f[q]],
                        SuccessEnvelope(<<>>, {}), {fullPath.value})
        ELSE LET r == fsUnlink(f, fullPath.value, fault = 1)
             IN  IF r.err # ""
                 THEN ToolResult(f, FailureEnvelope(r.err), {fullPath.value})
                 ELSE ToolResult(r.fs, SuccessEnvelope(<<>>, {}), {fullPath.value})

delete_file(f, p, fault) ==
    LET fullPath == validatePath(p)
    IN  IF fullPath.threw
        THEN ToolResult(f, FailureEnvelope(fullPath.message), {})
        ELSE LET r == fsUnlink(f, fullPath.value, fault = 1)
             IN  IF r.err # ""
                 THEN ToolResult(f, FailureEnvelope(r.err), {fullPath.value})
                 ELSE ToolResult(r.fs, SuccessEnvelope(<<>>, {}), {fullPath.value})

rename_file(f, from, to, fault) ==
    LET fromPath == validatePath(from)
        toPath == validatePath(to)
    IN  IF fromPath.threw
        THEN ToolResult(f, FailureEnvelope(fromPath.message), {})
        ELSE IF toPath.threw
        THEN ToolResult(f, FailureEnvelope(toPath.message), {})
        ELSE LET r == fsRename(f, fromPath.value, toPath.value, fault = 1)
             IN  IF r.err # ""
                 THEN ToolResult(f, FailureEnvelope(r.err),
                                 {fromPath.value, toPath.value})
                 ELSE ToolResult(r.fs, SuccessEnvelope(<<>>, {}),
                                 {fromPath.value, toPath.value})

\* create_directory with fs.mkdir(validPath), not recursive
create_directory_exclusive(f, p, fault) ==
    LET fullPath == validatePath(p)
    IN  IF fullPath.threw
        THEN ToolResult(f, FailureEnvelope(fullPath.message), {})
        ELSE IF exists(f, key(fullPath.value))
        THEN ToolResult(f, FailureEnvelope("EEXIST"), {fullPath.value})
        ELSE LET r == fsMkdir(f, fullPath.value, fault = 1)
             IN  IF r.err # ""
                 THEN ToolResult(f, FailureEnvelope(r.err), {fullPath.value})
                 ELSE ToolResult(r.fs, SuccessEnvelope(<<>>, {}), {fullPath.value})

create_directory(f, p, fault) ==
    LET fullPath == validatePath(p)
    IN  IF fullPath.threw
        THEN ToolResult(f, FailureEnvelope(fullPath.message), {})
        ELSE LET r == fsMkdir(f, fullPath.value, fault = 1)
             IN  IF r.err # ""
                 THEN ToolResult(f, FailureEnvelope(r.err), {fullPath.value})
                 ELSE ToolResult(r.fs, SuccessEnvelope(<<>>, {}), {fullPath.value})

(***************************************************************************)
(* The wire: text is a sequence of characters, a chunk a sequence of       *)
(* bytes.  Every character is one byte except E_ACUTE, which TextEncoder    *)
(* writes as the two bytes C3 A9.  The pieces of JSON syntax that carry no *)
(* text of their own (a key with its colon, a type, a tool name, an args   *)
(* or result object) are single characters.                                *)
(***************************************************************************)
LF == "\n"
DQ == "\""
BS == "\\"
E_ACUTE == "e'"
REPLACEMENT == "U+FFFD"

\* TextEncoder.encode
RECURSIVE utf8Encode(_)
utf8Encode(chars) ==
    IF chars = <<>> THEN <<>>
    ELSE (IF Head(chars) = E_ACUTE THEN <<"C3", "A9">> ELSE <<Head(chars)>>)
         \o utf8Encode(Tail(chars))

\* TextDecoder.decode(value, { stream: true }): an incomplete character at the
\* end of the input is held back; a malformed one becomes U+FFFD.
RECURSIVE utf8DecodeFrom(_, _)
utf8DecodeFrom(bytes, acc) ==
    IF bytes = <<>> THEN [chars |-> acc, pending |-> <<>>]
    ELSE IF Head(bytes) = "C3"
    THEN IF Len(bytes) = 1 THEN [chars |-> acc, pending |-> bytes]
         ELSE IF bytes[2] = "A9"
         THEN utf8DecodeFrom(Tail(Tail(bytes)), Append(acc, E_ACUTE))
         ELSE utf8DecodeFrom(Tail(bytes), Append(acc, REPLACEMENT))
    ELSE IF Head(bytes) = "A9"
    THEN utf8DecodeFrom(Tail(bytes), Append(acc, REPLACEMENT))
    ELSE utf8DecodeFrom(Tail(bytes), Append(acc, Head(bytes)))

\* decode without { stream: true }: what is incomplete at the end of a chunk
\* is flushed as U+FFFD
decodeChunk_flushing(pending, value) ==
    LET d == utf8DecodeFrom(value, <<>>)
    IN  [chars |-> IF d.pending = <<>> THEN d.chars ELSE Append(d.chars, REPLACEMENT),
         pending |-> <<>>]

\* decoder.decode(value, { stream: true }) with the bytes held from the last call
decodeChunk(pending, value) == utf8DecodeFrom(pending \o value, <<>>)

(***************************************************************************)
(* JSON.  A value is a string (its characters) or a token; an object has   *)
(* the six fields the client reads, each <<>> when absent and <<value>>   *)
(* when present.                                                           *)
(***************************************************************************)
Keys == <<"type", "textDelta", "text", "toolName", "args", "result">>

JsonString(chars) == [kind |-> "string", chars |-> chars, tok |-> ""]
JsonToken(t) == [kind |-> "token", chars |-> <<>>, tok |-> t]

EmptyObject == [type |-> <<>>, textDelta |-> <<>>, text |-> <<>>,
                toolName |-> <<>>, args |-> <<>>, result |-> <<>>]

\* the characters of a JSON string literal: a line feed, a quote and a
\* backslash are escaped
RECURSIVE escapeChars(_)
escapeChars(chars) ==
    IF chars = <<>> THEN <<>>
    ELSE LET c == Head(chars)
         IN  (IF c = LF THEN <<BS, "n">>
              ELSE IF c = DQ \/ c = BS THEN <<BS, c>>
              ELSE <<c>>) \o escapeChars(Tail(chars))

stringifyValue(v) ==
    IF v.kind = "string" THEN <<DQ>> \o escapeChars(v.chars) \o <<DQ>>
    ELSE <<v.tok>>

RECURSIVE stringifyFields(_, _, _)
stringifyFields(obj, i, first) ==
    IF i > Len(Keys) THEN <<>>
    ELSE LET k == Keys[i]
         IN  IF obj[k] = <<>> THEN stringifyFields(obj, i + 1, first)
             ELSE (IF first THEN <<>> ELSE <<",">>)
                  \o <<k, ":">> \o stringifyValue(obj[k][1])
                  \o stringifyFields(obj, i + 1, FALSE)

\* JSON.stringify(chunk): fields that are undefined are left out
stringify(obj) == <<"{">> \o stringifyFields(obj, 1, TRUE) \o <<"}">>

ParseError == [ok |-> FALSE, value |-> EmptyObject]

\* a string literal's characters from position i (after the opening quote)
RECURSIVE parseStringFrom(_, _, _)
parseStringFrom(cs, i, acc) ==
    IF i > Len(cs) THEN [ok |-> FALSE, chars |-> <<>>, next |-> i]
    ELSE IF cs[i] = DQ THEN [ok |-> TRUE, chars |-> acc, next |-> i + 1]
    ELSE IF cs[i] = LF THEN [ok |-> FALSE, chars |-> <<>>, next |-> i]
    ELSE IF cs[i] = BS
    THEN IF i + 1 > Len(cs) THEN [ok |-> FALSE, chars |-> <<>>, next |-> i]
         ELSE IF cs[i + 1] = "n" THEN parseStringFrom(cs, i + 2, Append(acc, LF))
         ELSE IF cs[i + 1] \in {DQ, BS} THEN parseStringFrom(cs, i + 2, Append(acc, cs[i + 1]))
         ELSE [ok |-> FALSE, chars |-> <<>>, next |-> i]
    ELSE parseStringFrom(cs, i + 1, Append(acc, cs[i]))

Structural == {"{", "}", ",", ":", DQ, BS, LF, " "}

\* the fields of an object from position i: key ":" value, separated by ","
RECURSIVE parseFieldsFrom(_, _, _)
parseFieldsFrom(cs, i, obj) ==
    IF i + 2 > Len(cs) \/ cs[i] \notin { Keys[j] : j \in DOMAIN Keys } \/ cs[i + 1] # ":"
    THEN ParseError
    ELSE LET k == cs[i]
             v == IF cs[i + 2] = DQ
                  THEN LET str == parseStringFrom(cs, i + 3, <<>>)
                       IN  [ok |-> str.ok, value |-> JsonString(str.chars), next |-> str.next]
                  ELSE [ok |-> cs[i + 2] \notin Structural,
                        value |-> JsonToken(cs[i + 2]), next |-> i + 3]
         IN  IF ~ v.ok \/ v.next > Len(cs) THEN ParseError
             ELSE LET obj2 == [obj EXCEPT ![k] = <<v.value>>]
                  IN  IF cs[v.next] = "}"
                      THEN IF v.next = Len(cs) THEN [ok |-> TRUE, value |-> obj2]
                           ELSE ParseError
                      ELSE IF cs[v.next] = ","
                      THEN parseFieldsFrom(cs, v.next + 1, obj2)
                      ELSE ParseError

\* JSON.parse(jsonStr): the object, or a SyntaxError
parse(cs) ==
    IF Len(cs) < 2 \/ cs[1] # "{" THEN ParseError
    ELSE IF cs = <<"{", "}">> THEN [ok |-> TRUE, value |-> EmptyObject]
    ELSE parseFieldsFrom(cs, 2, EmptyObject)

(***************************************************************************)
(* ChatInterface.vue: the transcript and handleSubmit.                     *)
(***************************************************************************)
ClientBuilds == {"first", "second"}

Apology == <<"Sorry, an error occurred while processing your request.">>
UndefinedText == <<"undefined">>

UserMessage(content) ==
    [role |-> "user", content |-> content, hasToolInvocations |-> FALSE,
     toolInvocations |-> <<>>]

\* { role: 'assistant', content: '', toolInvocations: [] }
NewAssistantMessage ==
    [role |-> "assistant", content |-> <<>>, hasToolInvocations |-> TRUE,
     toolInvocations |-> <<>>]

\* { role: 'assistant', content: 'Sorry, ...' }
ApologyMessage ==
    [role |-> "assistant", content |-> Apology, hasToolInvocations |-> FALSE,
     toolInvocations |-> <<>>]

Whitespace == {" ", LF}

\* !s.trim()
isBlank(chars) == \A i \in DOMAIN chars : chars[i] \in Whitespace

\* a value used as a condition
truthy(field) ==
    /\ field # <<>>
    /\ ~ (field[1].kind = "string" /\ field[1].chars = <<>>)

\* a value appended to a string
toText(field) ==
    IF field = <<>> THEN UndefinedText
    ELSE IF field[1].kind = "string" THEN field[1].chars
    ELSE <<field[1].tok>>

TypeOf(data) == IF data.type = <<>> THEN "" ELSE data.type[1].tok

\* const textContent = data.textDelta || data.text || ''
textDelta_first(data) ==
    IF truthy(data.textDelta) THEN toText(data.textDelta)
    ELSE IF truthy(data.text) THEN toText(data.text)
    ELSE <<>>

\* assistantMessage.content += data.textDelta
textDelta_second(data) == toText(data.textDelta)

\* toolInvocations.find(t => t.toolName === data.toolName): 0 when none
findTool(invocations, data) ==
    LET hits == { i \in DOMAIN invocations : invocations[i].toolName = data.toolName }
    IN  IF hits = {} THEN 0 ELSE CHOOSE i \in hits : \A j \in hits : i <= j

\* the try block with unshift in place of push in the tool-call branch
applyEvent_unshift(msg, data) ==
    IF TypeOf(data) = "text-delta"
    THEN [msg EXCEPT !.content =
            @ \o (IF clientBuild = "first" THEN textDelta_first(data)
                  ELSE textDelta_second(data))]
    ELSE IF TypeOf(data) = "tool-call"
    THEN [msg EXCEPT !.hasToolInvocations = TRUE,
                     !.toolInvocations =
                        <<[toolName |-> data.toolName, state |-> "call",
                           args |-> data.args, result |-> <<>>]>> \o @]
    ELSE IF TypeOf(data) = "tool-result" /\ msg.hasToolInvocations
    THEN LET i == findTool(msg.toolInvocations, data)
         IN  IF i = 0 THEN msg
             ELSE [msg EXCEPT !.toolInvocations[i].state = "result",
                              !.toolInvocations[i].result = data.result]
    ELSE msg

\* the dispatch with a last branch that appends the type of any other event
\* to the content
applyEvent_otherAsText(msg, data) ==
    IF TypeOf(data) = "text-delta"
    THEN [msg EXCEPT !.content =
            @ \o (IF clientBuild = "first" THEN textDelta_first(data)
                  ELSE textDelta_second(data))]
    ELSE IF TypeOf(data) = "tool-call"
    THEN [msg EXCEPT !.hasToolInvocations = TRUE,
                     !.toolInvocations =
                        Append(@, [toolName |-> data.toolName, state |-> "call",
                                   args |-> data.args, result |-> <<>>])]
    ELSE IF TypeOf(data) = "tool-result"
    THEN IF ~ msg.hasToolInvocations THEN msg
         ELSE LET i == findTool(msg.toolInvocations, data)
              IN  IF i = 0 THEN msg
                  ELSE [msg EXCEPT !.toolInvocations[i].state = "result",
                                   !.toolInvocations[i].result = data.result]
    ELSE [msg EXCEPT !.content = Append(@, TypeOf(data))]

\* the body of the try block after JSON.parse
applyEvent(msg, data) ==
    IF TypeOf(data) = "text-delta"
    THEN [msg EXCEPT !.content =
            @ \o (IF clientBuild = "first" THEN textDelta_first(data)
                  ELSE textDelta_second(data))]
    ELSE IF TypeOf(data) = "tool-call"
    THEN [msg EXCEPT !.hasToolInvocations = TRUE,
                     !.toolInvocations =
                        Append(@, [toolName |-> data.toolName, state |-> "call",
                                   args |-> data.args, result |-> <<>>])]
    ELSE IF TypeOf(data) = "tool-result" /\ msg.hasToolInvocations
    THEN LET i == findTool(msg.toolInvocations, data)
         IN  IF i = 0 THEN msg
             ELSE [msg EXCEPT !.toolInvocations[i].state = "result",
                              !.toolInvocations[i].result = data.result]
    ELSE msg

Marker == <<"0", ":">>

\* the body of the for loop without its first line: every line is handed to
\* JSON.parse
processLine_unfiltered(progress, line) ==
    LET data == parse(SubSeq(line, 3, Len(line)))
    IN  IF ~ data.ok
        THEN [progress EXCEPT !.errors = @ + 1]
        ELSE [progress EXCEPT !.msg = applyEvent(@, data.value),
                              !.decoded = Append(@, data.value)]

\* one pass of the for loop: progress is [msg, decoded, errors]
processLine(progress, line) ==
    IF isBlank(line) \/ ~ startsWith(line, Marker) THEN progress
    ELSE LET data == parse(SubSeq(line, 3, Len(line)))
         IN  IF ~ data.ok
             THEN [progress EXCEPT !.errors = @ + 1]
             ELSE [progress EXCEPT !.msg = applyEvent(@, data.value),
                                   !.decoded = Append(@, data.value)]

\* the for loop with the first parse error ending it
RECURSIVE processLines_stopAtError(_, _)
processLines_stopAtError(progress, lines) ==
    IF lines = <<>> THEN progress
    ELSE LET after == processLine(progress, Head(lines))
         IN  IF after.errors > progress.errors THEN after
             ELSE processLines_stopAtError(after, Tail(lines))

\* for (const line of lines) { ... try { ... } catch (err) { console.error } }
RECURSIVE processLines(_, _)
processLines(progress, lines) ==
    IF lines = <<>> THEN progress
    ELSE processLines(processLine(progress, Head(lines)), Tail(lines))

\* the filter with the test of the content alone
bodyMessages_contentOnly(msgs) ==
    LET keep(m) == m.content # <<>> /\ ~ isBlank(m.content)
        kept == SelectSeq(msgs, keep)
    IN  [i \in DOMAIN kept |-> [role |-> kept[i].role, content |-> kept[i].content]]

\* the request body: messages.value.filter(...).map(...)
bodyMessages(msgs) ==
    LET keep(m) == \/ m.role = "user"
                   \/ (m.role = "assistant" /\ m.content # <<>> /\ ~ isBlank(m.content))
        kept == SelectSeq(msgs, keep)
    IN  [i \in DOMAIN kept |-> [role |-> kept[i].role, content |-> kept[i].content]]

ClientIdle ==
    /\ messages = <<>>
    /\ isLoading = FALSE
    /\ pc = "idle"
    /\ requestBody = <<>>
    /\ assistantIndex = 0
    /\ buffer = <<>>
    /\ decoderPending = <<>>
    /\ decoded = <<>>
    /\ loggedErrors = 0
    /\ sent = <<>>
    /\ wire = <<>>
    /\ serverPc = "none"
    /\ streamError = FALSE
    /\ produced = <<>>
    /\ cutsSeen = {}
    /\ received = <<>>
    /\ abandoned = FALSE
    /\ enqueued = <<>>

serverSide == <<serverBuild, sandboxVars, toolVars, agentVars>>

\* handleSubmit up to the fetch with the guard if (isLoading.value) return
Submit_blank ==
    /\ pc = "idle"
    /\ ~ isLoading
    /\ messages' = Append(messages, UserMessage(input))
    /\ input' = <<>>
    /\ isLoading' = TRUE
    /\ requestBody' = bodyMessages(messages')
    /\ pc' = "fetching"
    /\ decoded' = <<>>
    /\ loggedErrors' = 0
    /\ sent' = <<>>
    /\ wire' = <<>>
    /\ serverPc' = "none"
    /\ streamError' = FALSE
    /\ produced' = <<>>
    /\ cutsSeen' = {}
    /\ received' = <<>>
    /\ enqueued' = <<>>
    /\ UNCHANGED <<serverSide, clientBuild, assistantIndex, buffer, decoderPending,
                   abandoned>>

\* handleSubmit up to the fetch
Submit ==
    /\ pc = "idle"
    /\ ~ isBlank(input)
    /\ ~ isLoading
    /\ messages' = Append(messages, UserMessage(input))
    /\ input' = <<>>
    /\ isLoading' = TRUE
    /\ requestBody' = bodyMessages(messages')
    /\ pc' = "fetching"
    /\ decoded' = <<>>
    /\ loggedErrors' = 0
    /\ sent' = <<>>
    /\ wire' = <<>>
    /\ serverPc' = "none"
    /\ streamError' = FALSE
    /\ produced' = <<>>
    /\ cutsSeen' = {}
    /\ received' = <<>>
    /\ enqueued' = <<>>
    /\ UNCHANGED <<serverSide, clientBuild, assistantIndex, buffer, decoderPending,
                   abandoned>>

\* the catch block without the finally block
Failed_withoutFinally ==
    /\ messages' = Append(messages, ApologyMessage)
    /\ pc' = "idle"
    /\ UNCHANGED <<serverSide, clientBuild, input, isLoading, requestBody, assistantIndex,
                   buffer, decoderPending, decoded, loggedErrors, received, abandoned,
                   sent, wireVars>>

\* catch (error) { messages.value.push(apology) } finally { isLoading.value = false }
Failed ==
    /\ messages' = Append(messages, ApologyMessage)
    /\ isLoading' = FALSE
    /\ pc' = "idle"
    /\ UNCHANGED <<serverSide, clientBuild, input, requestBody, assistantIndex, buffer,
                   decoderPending, decoded, loggedErrors, received, abandoned, sent,
                   wireVars>>

\* fetch rejects
FetchRejects == pc = "fetching" /\ Failed

\* if (!response.ok) throw
ResponseNotOk == pc = "fetching" /\ Failed

\* the reader test placed behind the push of the assistantMessage
NoReader_afterPush ==
    /\ pc = "fetching"
    /\ messages' = messages \o <<NewAssistantMessage, ApologyMessage>>
    /\ isLoading' = FALSE
    /\ pc' = "idle"
    /\ UNCHANGED <<serverSide, clientBuild, input, requestBody, assistantIndex, buffer,
                   decoderPending, decoded, loggedErrors, received, abandoned, sent,
                   wireVars>>

\* if (!reader) throw
NoReader == pc = "fetching" /\ Failed

\* the response arrives and the stream is applied to the assistantMessage of
\* the turn before, when there is one
ResponseOk_reuse ==
    /\ pc = "fetching"
    /\ messages' = IF assistantIndex = 0 THEN Append(messages, NewAssistantMessage)
                   ELSE messages
    /\ assistantIndex' = IF assistantIndex = 0 THEN Len(messages) + 1 ELSE assistantIndex
    /\ buffer' = <<>>
    /\ decoderPending' = <<>>
    /\ pc' = "reading"
    /\ serverPc' = "streaming"
    /\ UNCHANGED <<serverSide, clientBuild, input, isLoading, requestBody, decoded,
                   loggedErrors, received, abandoned, sent, wire, streamError, produced,
                   cutsSeen, enqueued>>

\* the response arrives with a body: the server's stream has started and
\* the assistantMessage is pushed
ResponseOk ==
    /\ pc = "fetching"
    /\ messages' = Append(messages, NewAssistantMessage)
    /\ assistantIndex' = Len(messages) + 1
    /\ buffer' = <<>>
    /\ decoderPending' = <<>>
    /\ pc' = "reading"
    /\ serverPc' = "streaming"
    /\ UNCHANGED <<serverSide, clientBuild, input, isLoading, requestBody, decoded,
                   loggedErrors, received, abandoned, sent, wire, streamError, produced,
                   cutsSeen, enqueued>>

\* one pass of the while loop with { done: false, value }: d is the decoder's
\* output, lines is buffer.split('\n') and progress the state after the for loop
ReadChunk(value) ==
    /\ pc = "reading"
    /\ \E d \in { decodeChunk(decoderPending, value) } :
       \E lines \in { split(buffer \o d.chars, LF) } :
       \E progress \in { processLines([msg |-> messages[assistantIndex],
                                        decoded |-> decoded, errors |-> loggedErrors],
                                       SubSeq(lines, 1, Len(lines) - 1)) } :
           /\ decoderPending' = d.pending
           /\ buffer' = lines[Len(lines)]
           /\ messages' = [messages EXCEPT ![assistantIndex] = progress.msg]
           /\ decoded' = progress.decoded
           /\ loggedErrors' = progress.errors
           /\ received' = received \o d.chars
    /\ UNCHANGED <<serverSide, clientBuild, input, isLoading, pc, requestBody,
                   assistantIndex, abandoned>>

\* { done: true } with the rest of the buffer processed as one more line
StreamDone_flush ==
    /\ pc = "reading"
    /\ \E progress \in { processLines([msg |-> messages[assistantIndex],
                                        decoded |-> decoded, errors |-> loggedErrors],
                                       <<buffer>>) } :
           /\ messages' = [messages EXCEPT ![assistantIndex] = progress.msg]
           /\ decoded' = progress.decoded
           /\ loggedErrors' = progress.errors
    /\ isLoading' = FALSE
    /\ pc' = "idle"
    /\ UNCHANGED <<serverSide, clientBuild, input, requestBody, assistantIndex,
                   buffer, decoderPending, received, abandoned, sent, wireVars>>

\* { done: true }: break, then finally
StreamDone ==
    /\ pc = "reading"
    /\ isLoading' = FALSE
    /\ pc' = "idle"
    /\ UNCHANGED <<serverSide, clientBuild, messages, input, requestBody, assistantIndex,
                   buffer, decoderPending, decoded, loggedErrors, received, abandoned,
                   sent, wireVars>>

\* reader.read() rejects: the connection dropped
ReadRejects == pc = "reading" /\ Failed

(***************************************************************************)
(* SpecTools: any sequence of tool calls, as the agent loop may issue      *)
(* them, on a file system that holds files inside and outside the root.    *)
(***************************************************************************)
InitialFs ==
    ( <<>> :> Dir ) @@
    ( << <<"r">> >> :> Dir ) @@
    ( << <<"r", "s">> >> :> File("x") ) @@
    ( << <<"s">> >> :> File("x") )

\* The path arguments the language model passes: a nested path inside the
\* root, a sibling of the root whose name starts with the root's name, reached
\* through "..", and an absolute path outside the root.
ToolArgs ==
    { <<"s", "/", "s">>,
      <<".", ".", "/", "r", "s">>,
      <<"/", "s">> }

\* list_files defaults its path to "."; it is also given the root and its parent
ListArgs == ToolArgs \cup { <<".">>, <<>>, <<".", ".">> }

Contents == {"x", "y"}

ToolsIdle ==
    /\ fs = InitialFs
    /\ lastTool = ""
    /\ lastArgs = <<>>
    /\ lastOutcome = NoOutcome
    /\ lastAccess = {}
    /\ fsBefore = InitialFs
    /\ written = {}
    /\ agentPc = "idle"
    /\ stepCount = 0
    /\ stepCalls = 0
    /\ toolCallsRun = 0

Ran(tool, args, r) ==
    /\ fs' = r.fs
    /\ lastTool' = tool
    /\ lastArgs' = args
    /\ lastOutcome' = r.outcome
    /\ lastAccess' = r.access
    /\ fsBefore' = fs
    /\ UNCHANGED <<serverBuild, sandboxVars, agentVars, clientVars, sent, wireVars>>

\* what a write, delete or rename of path p leaves of the writes in force
stillInForce(w, p) == { x \in w : ~ below(key(resolve(LOCAL_PATH, p)), x[1]) }

ReadFile ==
    \E p \in ToolArgs, fault \in 0 .. 1 :
        /\ Ran("read_file", <<p>>, read_file(fs, p, fault))
        /\ UNCHANGED written

WriteFile ==
    \E p \in ToolArgs, c \in Contents, fault \in 0 .. 2 :
        /\ Ran("write_file", <<p>>, write_file(fs, p, c, fault))
        /\ written' = stillInForce(written, p) \cup
                (IF lastOutcome'.success
                 THEN { <<key(resolve(LOCAL_PATH, p)), c>> } ELSE {})

ListFiles ==
    \E p \in ListArgs, fault \in 0 .. 1 :
        /\ Ran("list_files", <<p>>, list_files(fs, p, fault))
        /\ UNCHANGED written

DeleteFile ==
    \E p \in ToolArgs, fault \in 0 .. 1 :
        /\ Ran("delete_file", <<p>>, delete_file(fs, p, fault))
        /\ written' = stillInForce(written, p)

RenameFile ==
    \E from \in ToolArgs, to \in ToolArgs, fault \in 0 .. 1 :
        /\ Ran("rename_file", <<from, to>>, rename_file(fs, from, to, fault))
        /\ written' = stillInForce(stillInForce(written, from), to)

CreateDirectory ==
    \E p \in ToolArgs, fault \in 0 .. 1 :
        /\ Ran("create_directory", <<p>>, create_directory(fs, p, fault))
        /\ UNCHANGED written

InitTools ==
    /\ serverBuild \in ServerBuilds
    /\ filePath = <<>>
    /\ validated = <<>>
    /\ ToolsIdle
    /\ ClientIdle
    /\ clientBuild = "first"
    /\ input = <<>>

NextTools ==
    \/ ReadFile
    \/ WriteFile
    \/ ListFiles
    \/ DeleteFile
    \/ RenameFile
    \/ CreateDirectory

SpecTools == InitTools /\ [][NextTools]_vars

(***************************************************************************)
(* SpecSandbox: validatePath applied to every bounded path argument.       *)
(***************************************************************************)
PathAlphabet == {"/", ".", "r", "s"}
PathInputs == StringsUpTo(PathAlphabet, MaxPathLen)

InitSandbox ==
    /\ serverBuild \in ServerBuilds
    /\ filePath \in PathInputs
    /\ validated = <<>>
    /\ ToolsIdle
    /\ ClientIdle
    /\ clientBuild = "first"
    /\ input = <<>>

Validate ==
    /\ validated = <<>>
    /\ validated' = <<validatePath(filePath)>>
    /\ UNCHANGED <<serverBuild, filePath, toolVars, agentVars, clientVars, sent, wireVars>>

NextSandbox == Validate

SpecSandbox == InitSandbox /\ [][NextSandbox]_vars

(***************************************************************************)
(* The events of the wire protocol, as the objects JSON.stringify is given *)
(***************************************************************************)
TextDeltaEvent(chars) ==
    [EmptyObject EXCEPT !.type = <<JsonToken("text-delta")>>,
                        !.textDelta = <<JsonString(chars)>>]

ToolCallEvent(name) ==
    [EmptyObject EXCEPT !.type = <<JsonToken("tool-call")>>,
                        !.toolName = <<JsonToken(name)>>,
                        !.args = <<JsonToken("{path}")>>]

\* a tool-result carrying the executor's envelope under "result"
ToolResultEvent(name, envelope) ==
    [EmptyObject EXCEPT !.type = <<JsonToken("tool-result")>>,
                        !.toolName = <<JsonToken(name)>>,
                        !.result = <<JsonToken(envelope)>>]

\* a tool-result without a "result" field
BareToolResultEvent(name) ==
    [EmptyObject EXCEPT !.type = <<JsonToken("tool-result")>>,
                        !.toolName = <<JsonToken(name)>>]

FinishEvent == [EmptyObject EXCEPT !.type = <<JsonToken("finish")>>]

SuccessToken == "{success:true}"
FailureToken == "{success:false}"

\* const data = `0:${JSON.stringify(chunk)}\n`, without the line feed
frame(event) == Marker \o stringify(event)

\* the lines of a chunk, each ended by a line feed
RECURSIVE joinLines(_)
joinLines(lines) ==
    IF lines = <<>> THEN <<>>
    ELSE Head(lines) \o <<LF>> \o joinLines(Tail(lines))

(***************************************************************************)
(* SpecAggregate: one turn whose stream is any sequence of lines, frames   *)
(* of tool events and a line that does not parse, delivered one or two     *)
(* lines to a chunk.                                                       *)
(***************************************************************************)
MalformedLine == Marker \o <<"{", "type", ":">>

AggregateLines ==
    { frame(ToolCallEvent("read_file")),
      frame(ToolCallEvent("write_file")),
      frame(ToolResultEvent("read_file", SuccessToken)),
      frame(ToolResultEvent("read_file", FailureToken)),
      frame(BareToolResultEvent("read_file")),
      MalformedLine }

FrameChunks ==
    { <<l>> : l \in AggregateLines } \cup
    { <<l1, l2>> : l1 \in AggregateLines, l2 \in AggregateLines }

InitAggregate ==
    /\ serverBuild = "index.ts"
    /\ filePath = <<>>
    /\ validated = <<>>
    /\ ToolsIdle
    /\ ClientIdle
    /\ clientBuild \in ClientBuilds
    /\ input = <<"h", "i">>

\* reader.read() resolves with a chunk of whole lines
ReadFrames ==
    \E lines \in FrameChunks :
        /\ Len(sent) + Len(lines) <= MaxLines
        /\ ReadChunk(utf8Encode(joinLines(lines)))
        /\ sent' = sent \o lines
        /\ UNCHANGED wireVars

NextAggregate ==
    \/ Submit
    \/ FetchRejects
    \/ ResponseNotOk
    \/ NoReader
    \/ ResponseOk
    \/ ReadFrames
    \/ StreamDone
    \/ ReadRejects

SpecAggregate == InitAggregate /\ [][NextAggregate]_vars

(***************************************************************************)
(* SpecWire: one turn whose stream is what the server's ReadableStream     *)
(* enqueues, cut into chunks at any byte.                                  *)
(***************************************************************************)
WireEvents ==
    { TextDeltaEvent(<<E_ACUTE, LF>>),
      ToolCallEvent("read_file"),
      ToolResultEvent("read_file", SuccessToken),
      FinishEvent }

InitWire ==
    /\ serverBuild = "index.ts"
    /\ filePath = <<>>
    /\ validated = <<>>
    /\ ToolsIdle
    /\ ClientIdle
    /\ clientBuild \in ClientBuilds
    /\ input = <<"h", "i">>

\* the loop's body without the line feed after the payload
ServerEnqueue_merged ==
    \E chunk \in WireEvents :
        /\ serverPc = "streaming"
        /\ Len(produced) < MaxEvents
        /\ wire' = wire \o utf8Encode(frame(chunk))
        /\ enqueued' = enqueued \o utf8Encode(frame(chunk))
        /\ produced' = Append(produced, chunk)
        /\ UNCHANGED <<serverSide, clientVars, sent, serverPc, streamError, cutsSeen>>

\* for await (const chunk of result.fullStream) { controller.enqueue(...) }
ServerEnqueue ==
    \E chunk \in WireEvents :
        /\ serverPc = "streaming"
        /\ Len(produced) < MaxEvents
        /\ wire' = wire \o utf8Encode(frame(chunk) \o <<LF>>)
        /\ enqueued' = enqueued \o utf8Encode(frame(chunk) \o <<LF>>)
        /\ produced' = Append(produced, chunk)
        /\ UNCHANGED <<serverSide, clientVars, sent, serverPc, streamError, cutsSeen>>

\* the iteration ends: finally { controller.close() }
ServerStreamEnds ==
    /\ serverPc = "streaming"
    /\ serverPc' = "closed"
    /\ UNCHANGED <<serverSide, clientVars, sent, wire, streamError, produced, cutsSeen,
                   enqueued>>

\* the iteration throws, with the catch block and no finally block
ServerStreamThrows_unclosed ==
    /\ serverPc = "streaming"
    /\ serverPc' = "failed"
    /\ streamError' = TRUE
    /\ UNCHANGED <<serverSide, clientVars, sent, wire, produced, cutsSeen, enqueued>>

\* the iteration throws: catch { console.error } finally { controller.close() }
ServerStreamThrows ==
    /\ serverPc = "streaming"
    /\ serverPc' = "closed"
    /\ streamError' = TRUE
    /\ UNCHANGED <<serverSide, clientVars, sent, wire, produced, cutsSeen, enqueued>>

\* reader.read() resolves with the next bytes of the stream, however many
ReadFromWire ==
    \E n \in 1 .. Len(wire) :
        /\ ReadChunk(SubSeq(wire, 1, n))
        /\ wire' = SubSeq(wire, n + 1, Len(wire))
        /\ cutsSeen' = cutsSeen
                \cup (IF buffer' # <<>> THEN {"line"} ELSE {})
                \cup (IF buffer' = <<"0">> THEN {"marker"} ELSE {})
                \cup (IF decoderPending' # <<>> THEN {"character"} ELSE {})
        /\ UNCHANGED <<sent, serverPc, streamError, produced, enqueued>>

\* reader.read() resolves with done once the closed stream is drained
ReadDoneWire ==
    /\ serverPc = "closed"
    /\ wire = <<>>
    /\ StreamDone

NextWire ==
    \/ Submit
    \/ ResponseOk
    \/ ServerEnqueue
    \/ ServerStreamEnds
    \/ ServerStreamThrows
    \/ ReadFromWire
    \/ ReadDoneWire
    \/ ReadRejects

SpecWire == InitWire /\ [][NextWire]_vars

(***************************************************************************)
(* SpecText: one turn whose stream carries text-delta frames, as either    *)
(* version of the ai package names the increment, between blank lines and  *)
(* lines of other channels, cut into chunks at any byte.                   *)
(***************************************************************************)
\* a text-delta whose increment is carried under "text"
TextEvent(chars) ==
    [EmptyObject EXCEPT !.type = <<JsonToken("text-delta")>>,
                        !.text = <<JsonString(chars)>>]

\* a line of another channel: the same payload behind another marker
OtherChannelLine == <<"1", ":">> \o stringify(TextDeltaEvent(<<"a">>))

TextLines ==
    { frame(TextDeltaEvent(<<"a">>)),
      frame(TextEvent(<<"b">>)),
      <<" ">>,
      OtherChannelLine }

InitText ==
    /\ serverBuild = "index.ts"
    /\ filePath = <<>>
    /\ validated = <<>>
    /\ ToolsIdle
    /\ ClientIdle
    /\ clientBuild \in ClientBuilds
    /\ input = <<"h", "i">>

\* the response body receives one more line
TransportLine ==
    \E line \in TextLines :
        /\ serverPc = "streaming"
        /\ Len(sent) < MaxTextLines
        /\ wire' = wire \o utf8Encode(line \o <<LF>>)
        /\ sent' = Append(sent, line)
        /\ UNCHANGED <<serverSide, clientVars, serverPc, streamError, produced, cutsSeen,
                       enqueued>>

\* what a body that ends inside a line ends with: a whole frame without its
\* line feed, or the first characters of one
PartialLines ==
    { frame(TextDeltaEvent(<<"a">>)),
      SubSeq(frame(TextDeltaEvent(<<"a">>)), 1, 9) }

\* the response body ends inside a line
TransportEndsMidLine ==
    \E rest \in PartialLines :
        /\ serverPc = "streaming"
        /\ wire' = wire \o utf8Encode(rest)
        /\ serverPc' = "closed"
        /\ UNCHANGED <<serverSide, clientVars, sent, streamError, produced, cutsSeen,
                       enqueued>>

\* reader.read() resolves with the next bytes of the body, however many
ReadBytes ==
    \E n \in 1 .. Len(wire) :
        /\ ReadChunk(SubSeq(wire, 1, n))
        /\ wire' = SubSeq(wire, n + 1, Len(wire))
        /\ UNCHANGED <<sent, serverPc, streamError, produced, cutsSeen, enqueued>>

NextText ==
    \/ Submit
    \/ ResponseOk
    \/ TransportLine
    \/ ServerStreamEnds
    \/ TransportEndsMidLine
    \/ ReadBytes
    \/ ReadDoneWire

SpecText == InitText /\ [][NextText]_vars

(***************************************************************************)
(* LiveTurn: one turn from the request to its end, with every way the      *)
(* request and the stream can fail.  The request is answered or fails, the *)
(* server's loop over fullStream goes on until it ends or throws, and each *)
(* pending read resolves or rejects.                                       *)
(***************************************************************************)
\* reader.read() resolves with all that the server has enqueued
ReadEnqueued ==
    /\ wire # <<>>
    /\ ReadChunk(wire)
    /\ wire' = <<>>
    /\ UNCHANGED <<sent, serverPc, streamError, produced, cutsSeen, enqueued>>

NextTurn ==
    \/ Submit
    \/ FetchRejects
    \/ ResponseNotOk
    \/ NoReader
    \/ ResponseOk
    \/ ServerEnqueue
    \/ ServerStreamEnds
    \/ ServerStreamThrows
    \/ ReadEnqueued
    \/ ReadDoneWire
    \/ ReadRejects

LiveTurn ==
    /\ InitWire
    /\ [][NextTurn]_vars
    /\ WF_vars(FetchRejects \/ ResponseNotOk \/ NoReader \/ ResponseOk)
    /\ WF_vars(ServerEnqueue \/ ServerStreamEnds \/ ServerStreamThrows)
    /\ WF_vars(ReadEnqueued \/ ReadDoneWire \/ ReadRejects)

(***************************************************************************)
(* SpecFilter: handleSubmit on any transcript of up to MaxMessages         *)
(* messages, with contents that are empty, whitespace or text.             *)
(***************************************************************************)
MessageContents == { <<>>, <<" ">>, <<"a">>, <<" ", "a">> }

MessagePool ==
    { UserMessage(c) : c \in { <<>>, <<"a">> } } \cup
    { [NewAssistantMessage EXCEPT !.content = c] : c \in MessageContents }

RECURSIVE SeqsUpTo(_, _)
SeqsUpTo(S, n) ==
    IF n = 0 THEN { <<>> }
    ELSE LET shorter == SeqsUpTo(S, n - 1)
         IN  shorter \cup { Append(q, x) : q \in shorter, x \in S }

InitFilter ==
    /\ serverBuild = "index.ts"
    /\ filePath = <<>>
    /\ validated = <<>>
    /\ ToolsIdle
    /\ clientBuild \in ClientBuilds
    /\ input = <<"h", "i">>
    /\ messages \in SeqsUpTo(MessagePool, MaxMessages)
    /\ isLoading = FALSE
    /\ pc = "idle"
    /\ requestBody = <<>>
    /\ assistantIndex = 0
    /\ buffer = <<>>
    /\ decoderPending = <<>>
    /\ decoded = <<>>
    /\ loggedErrors = 0
    /\ sent = <<>>
    /\ wire = <<>>
    /\ serverPc = "none"
    /\ streamError = FALSE
    /\ produced = <<>>
    /\ cutsSeen = {}
    /\ received = <<>>
    /\ abandoned = FALSE
    /\ enqueued = <<>>

NextFilter == Submit

SpecFilter == InitFilter /\ [][NextFilter]_vars

(***************************************************************************)
(* SpecAgent: the loop streamText runs for one chat request, as the        *)
(* server configures it: a step is one inference and the execution of the  *)
(* tool calls it requested; another step follows when the step had tool    *)
(* calls and the stop condition stepCountIs(10) (maxSteps: 10 in the       *)
(* earlier server) does not hold.                                          *)
(***************************************************************************)
StepBudget == 10

InitAgent ==
    /\ serverBuild \in ServerBuilds
    /\ filePath = <<>>
    /\ validated = <<>>
    /\ ToolsIdle
    /\ ClientIdle
    /\ clientBuild = "first"
    /\ input = <<>>

agentRest == <<serverBuild, sandboxVars, toolVars, clientVars, sent, wireVars>>

\* app.post('/api/chat'): streamText({ ..., tools, stopWhen: stepCountIs(10) })
StartAgent ==
    /\ agentPc = "idle"
    /\ agentPc' = "inferring"
    /\ UNCHANGED <<stepCount, stepCalls, toolCallsRun, agentRest>>

\* one inference: the model answers with text and n tool calls
Infer ==
    \E n \in 0 .. MaxCallsPerStep :
        /\ agentPc = "inferring"
        /\ stepCount' = stepCount + 1
        /\ stepCalls' = n
        /\ agentPc' = IF n = 0 THEN "done" ELSE "executing"
        /\ UNCHANGED <<toolCallsRun, agentRest>>

\* the step's end with stepCountIs(11)
ExecuteTools_oneMore ==
    /\ agentPc = "executing"
    /\ toolCallsRun' = toolCallsRun + stepCalls
    /\ agentPc' = IF stepCount >= StepBudget + 1 THEN "done" ELSE "inferring"
    /\ UNCHANGED <<stepCount, stepCalls, agentRest>>

\* the step's tool calls are executed (tools.*.execute) and the step ends:
\* onStepFinish, then the stop condition
ExecuteTools ==
    /\ agentPc = "executing"
    /\ toolCallsRun' = toolCallsRun + stepCalls
    /\ agentPc' = IF stepCount >= StepBudget THEN "done" ELSE "inferring"
    /\ UNCHANGED <<stepCount, stepCalls, agentRest>>

NextAgent ==
    \/ StartAgent
    \/ Infer
    \/ ExecuteTools

SpecAgent == InitAgent /\ [][NextAgent]_vars /\ WF_vars(NextAgent)

(***************************************************************************)
(* SpecTurns: up to MaxTurns turns, one after the other.  The user types   *)
(* into the field while it is enabled and submits the form; each turn's    *)
(* request fails, or its stream delivers the first lines of a script and   *)
(* then ends or drops; the component may be unmounted during a turn.       *)
(***************************************************************************)
Typed == { <<>>, <<" ">>, <<"h", "i">> }

TurnScript ==
    << frame(TextDeltaEvent(<<"a">>)),
       frame(ToolCallEvent("read_file")),
       frame(ToolResultEvent("read_file", SuccessToken)) >>

\* the turns so far: one user message each
userTurns == Cardinality({ i \in DOMAIN messages : messages[i].role = "user" })

InitTurns ==
    /\ serverBuild = "index.ts"
    /\ filePath = <<>>
    /\ validated = <<>>
    /\ ToolsIdle
    /\ ClientIdle
    /\ clientBuild \in ClientBuilds
    /\ input = <<>>

\* <input v-model="input" :disabled="isLoading">
TypeInput ==
    \E text \in Typed :
        /\ ~ isLoading
        /\ ~ abandoned
        /\ text # input
        /\ input' = text
        /\ UNCHANGED <<serverSide, clientBuild, messages, isLoading, pc, requestBody,
                       assistantIndex, buffer, decoderPending, decoded, loggedErrors,
                       received, abandoned, sent, wireVars>>

\* <form @submit.prevent="handleSubmit">, past the guard
SubmitTurn ==
    /\ userTurns < MaxTurns
    /\ ~ abandoned
    /\ Submit

\* if (!input.value.trim() || isLoading.value) return
SubmitIgnored ==
    /\ isBlank(input) \/ isLoading
    /\ UNCHANGED vars

\* reader.read() resolves with the next line of the turn's stream
ReadNextLine ==
    /\ Len(sent) < Len(TurnScript)
    /\ ReadChunk(utf8Encode(TurnScript[Len(sent) + 1] \o <<LF>>))
    /\ sent' = Append(sent, TurnScript[Len(sent) + 1])
    /\ UNCHANGED wireVars

\* the component is unmounted while handleSubmit awaits the response or a
\* read: no hook of the component stops the request or the read loop
Abandon ==
    /\ pc \in {"fetching", "reading"}
    /\ ~ abandoned
    /\ abandoned' = TRUE
    /\ UNCHANGED <<serverSide, clientBuild, messages, input, isLoading, pc, requestBody,
                   assistantIndex, buffer, decoderPending, decoded, loggedErrors,
                   received, sent, wireVars>>

NextTurns ==
    \/ TypeInput
    \/ SubmitTurn
    \/ SubmitIgnored
    \/ FetchRejects
    \/ ResponseNotOk
    \/ NoReader
    \/ ResponseOk
    \/ ReadNextLine
    \/ StreamDone
    \/ ReadRejects
    \/ Abandon

SpecTurns == InitTurns /\ [][NextTurns]_vars

(***************************************************************************)
(* Claims about validatePath                                               *)
(***************************************************************************)
\* Containment by path segments: a is the root or lies below it.
WithinRoot(a) ==
    LET rootSegs == segments(LOCAL_PATH)
        segs == segments(a)
    IN  /\ Len(segs) >= Len(rootSegs)
        /\ SubSeq(segs, 1, Len(rootSegs)) = rootSegs

Escapes(p) == ~ WithinRoot(resolve(LOCAL_PATH, p))

\* C1: every path argument that escapes the root (by ".." segments or by being
\* an absolute path outside the root) is Denied by validatePath, which never
\* returns a path outside the root.
C1_EscapingPathDenied ==
    (validated # <<>> /\ Escapes(filePath)) =>
        /\ validated[1].threw
        /\ validated[1].message = AccessDenied

\* C2: the containment check of the checking server accepts a resolved path
\* only if it equals the root or starts with the root followed by "/"; a
\* sibling whose name has the root's name as a prefix is Denied.
C2_SiblingPrefixDenied ==
    (serverBuild = "part_000" /\ validated # <<>> /\ ~ validated[1].threw) =>
        \/ validated[1].value = LOCAL_PATH
        \/ startsWith(validated[1].value, LOCAL_PATH \o <<"/">>)

(***************************************************************************)
(* Claims about the tool executors                                         *)
(***************************************************************************)
rootKey == key(LOCAL_PATH)

OutsideUnchanged ==
    \A k \in DOMAIN fs \cup DOMAIN InitialFs :
        ~ below(rootKey, k) =>
            /\ k \in DOMAIN fs
            /\ k \in DOMAIN InitialFs
            /\ fs[k] = InitialFs[k]

\* C3: every executor passes its path arguments through the sandbox before
\* touching storage; a Denied path gives {success: false, error: "Access
\* denied..."} with the file system unchanged and unread, so nothing outside
\* the root is ever read, created, modified, moved or deleted.
C3_NothingOutsideRootTouched ==
    /\ OutsideUnchanged
    /\ \A a \in lastAccess : WithinRoot(a)
    /\ (lastTool # "" /\ \E i \in DOMAIN lastArgs : Escapes(lastArgs[i])) =>
            lastOutcome = FailureEnvelope(AccessDenied)

\* C4: no executor propagates an exception: every call returns an envelope,
\* success true without an error, or success false with the error's message.
C4_ExecutorsReturnEnvelope ==
    lastTool # "" =>
        /\ lastOutcome.kind = "returned"
        /\ lastOutcome.success => lastOutcome.error = ""
        /\ ~ lastOutcome.success =>
                /\ lastOutcome.error # ""
                /\ lastOutcome.content = <<>>
                /\ lastOutcome.files = {}

\* a delete of a missing file came back as a failure envelope
C4_Witness ==
    /\ lastTool = "delete_file"
    /\ lastOutcome = FailureEnvelope("ENOENT")

(***************************************************************************)
(* Claims about the transcript aggregator                                  *)
(***************************************************************************)
\* the assistant message of the turn in progress or just ended
InTurn == serverPc # "none"
turnInvocations == messages[assistantIndex].toolInvocations

IsToolResult(data) == TypeOf(data) = "tool-result"
IsToolCall(data) == TypeOf(data) = "tool-call"

SuccessResult == <<JsonToken(SuccessToken)>>
FailureResult == <<JsonToken(FailureToken)>>

\* the first invocation, in invocation order, with the event's toolName that
\* is still pending: 0 when none
firstPending(invocations, data) ==
    LET hits == { i \in DOMAIN invocations :
                    /\ invocations[i].toolName = data.toolName
                    /\ invocations[i].pending }
    IN  IF hits = {} THEN 0 ELSE CHOOSE i \in hits : \A j \in hits : i <= j

\* the invocations the events call for: a tool-call adds a pending one, a
\* tool-result resolves the first pending one of its name and is dropped when
\* there is none
RECURSIVE resolvedInOrder(_, _)
resolvedInOrder(invocations, events) ==
    IF events = <<>> THEN invocations
    ELSE LET data == Head(events)
             i == firstPending(invocations, data)
         IN  resolvedInOrder(
                 IF IsToolCall(data)
                 THEN Append(invocations, [toolName |-> data.toolName,
                                           pending |-> TRUE, result |-> <<>>])
                 ELSE IF IsToolResult(data) /\ i # 0
                 THEN [invocations EXCEPT ![i].pending = FALSE,
                                          ![i].result = data.result]
                 ELSE invocations,
                 Tail(events))

\* C5: a tool-result resolves the first invocation of its toolName that is
\* still pending, so that each invocation is resolved at most once, by its own
\* result, and k results for k calls of one tool resolve all k: after any
\* events, invocation i is pending exactly when the i-th call has had no
\* result of its own, and carries that result otherwise.
C5_ResultResolvesFirstPending ==
    InTurn =>
        LET expected == resolvedInOrder(<<>>, decoded)
        IN  /\ Len(turnInvocations) = Len(expected)
            /\ \A i \in DOMAIN expected :
                /\ turnInvocations[i].toolName = expected[i].toolName
                /\ (turnInvocations[i].state = "call") = expected[i].pending
                /\ turnInvocations[i].result = expected[i].result

\* C6: a resolved invocation's state follows the success field of the
\* envelope attached to it: 'result' (succeeded) for success true, 'error'
\* (failed) for success false.
C6_StateFollowsSuccessField ==
    \A m \in DOMAIN messages :
        \A i \in DOMAIN messages[m].toolInvocations :
            LET tool == messages[m].toolInvocations[i]
            IN  /\ tool.result = SuccessResult => tool.state = "result"
                /\ tool.result = FailureResult => tool.state = "error"

\* C7: in every message, an invocation has a result exactly when its state
\* is not 'call' (pending).
C7_ResultPresentIffNotPending ==
    \A m \in DOMAIN messages :
        \A i \in DOMAIN messages[m].toolInvocations :
            LET tool == messages[m].toolInvocations[i]
            IN  (tool.result # <<>>) <=> (tool.state # "call")

\* a chunk of one line that decoded to a tool-result
ReadOneToolResult ==
    /\ pc = "reading"
    /\ Len(sent') = Len(sent) + 1
    /\ Len(decoded') = Len(decoded) + 1
    /\ IsToolResult(decoded'[Len(decoded')])

NoPendingFor(data) ==
    \A i \in DOMAIN turnInvocations :
        turnInvocations[i].toolName = data.toolName => turnInvocations[i].state # "call"

\* C8: a tool-result for which the assistant message has no pending invocation
\* of that toolName is dropped: the message is unchanged and the read loop
\* goes on.
C8_UnmatchedResultDropped ==
    [][ (ReadOneToolResult /\ NoPendingFor(decoded'[Len(decoded')]))
            => (messages' = messages /\ pc' = "reading") ]_vars

(***************************************************************************)
(* Claims about the wire protocol                                          *)
(***************************************************************************)
IsPrefix(s, t) == Len(s) <= Len(t) /\ SubSeq(t, 1, Len(s)) = s

HasReplacement(event) ==
    \E k \in DOMAIN Keys :
        /\ event[Keys[k]] # <<>>
        /\ \E j \in DOMAIN event[Keys[k]][1].chars :
               event[Keys[k]][1].chars[j] = REPLACEMENT

\* C9: what the server enqueued and the client decoded is the same sequence
\* of events however the bytes were cut into chunks: the decoded events are
\* always the first of the produced ones, all of them once every byte has
\* been read, no line is reported as unparseable and no replacement
\* character appears.
C9_RoundTrip ==
    /\ IsPrefix(decoded, produced)
    /\ (wire = <<>> /\ InTurn) => decoded = produced
    /\ loggedErrors = 0
    /\ \A i \in DOMAIN decoded : ~ HasReplacement(decoded[i])
    /\ \A j \in DOMAIN buffer : buffer[j] # REPLACEMENT

\* C9: a whole stream with a multi-byte character was read to the end in
\* chunks that ended inside a line, inside the marker and inside the character
C9_Witness ==
    /\ pc = "idle"
    /\ ~ isLoading
    /\ serverPc = "closed"
    /\ wire = <<>>
    /\ Len(messages) = assistantIndex
    /\ cutsSeen = {"line", "marker", "character"}
    /\ Len(decoded) >= 2
    /\ decoded = produced
    /\ \E i \in DOMAIN decoded : decoded[i] = TextDeltaEvent(<<E_ACUTE, LF>>)

\* the lines that are frames
IsFrame(line) == ~ isBlank(line) /\ startsWith(line, Marker)
payload(line) == SubSeq(line, 3, Len(line))
Malformed(line) == IsFrame(line) /\ ~ parse(payload(line)).ok
WellFormed(line) == IsFrame(line) /\ parse(payload(line)).ok

\* the objects of the well-formed frames among the lines, in order
wellFormedData(lines) ==
    LET good == SelectSeq(lines, WellFormed)
    IN  [i \in DOMAIN good |-> parse(payload(good[i])).value]

RECURSIVE applyAll(_, _)
applyAll(msg, events) ==
    IF events = <<>> THEN msg
    ELSE applyAll(applyEvent(msg, Head(events)), Tail(events))

\* C10: a line that fails to parse is logged and skipped: the assistant
\* message is what the well-formed lines delivered so far make of it, in
\* order, as if the malformed ones had not been sent; each malformed line is
\* logged; and reading a chunk, malformed lines or not, neither ends the read
\* loop nor adds or removes a message.
C10_MalformedLineSkipped ==
    /\ [](InTurn =>
            /\ decoded = wellFormedData(sent)
            /\ messages[assistantIndex] = applyAll(NewAssistantMessage, decoded)
            /\ loggedErrors = Len(SelectSeq(sent, Malformed)))
    /\ [][ sent' # sent /\ sent' # <<>>
            => (pc' = "reading" /\ Len(messages') = Len(messages)) ]_vars

\* C10: a malformed line was logged and a well-formed line after it was
\* applied
C10_Witness ==
    /\ InTurn
    /\ loggedErrors >= 1
    /\ \E i \in DOMAIN sent : \E j \in DOMAIN sent :
        /\ i < j
        /\ Malformed(sent[i])
        /\ WellFormed(sent[j])
        /\ IsToolCall(parse(payload(sent[j])).value)
    /\ Len(turnInvocations) >= 1

(***************************************************************************)
(* Claims about the text of the assistant message                          *)
(***************************************************************************)
turnContent == messages[assistantIndex].content

\* C11: blank lines and lines without the 0: marker are ignored: nothing is
\* logged for them, the frames around them are decoded as if they were not
\* there (all of them once the bytes are read), and the assistant message is
\* what the decoded frames alone make of it.
C11_OtherLinesIgnored ==
    InTurn =>
        /\ loggedErrors = 0
        /\ IsPrefix(decoded, wellFormedData(sent))
        /\ wire = <<>> => decoded = wellFormedData(sent)
        /\ messages[assistantIndex] = applyAll(NewAssistantMessage, decoded)

\* C11: a line that is not a frame was read, and the frame after it applied
C11_Witness ==
    /\ InTurn
    /\ wire = <<>>
    /\ Len(sent) = 2
    /\ ~ IsFrame(sent[1])
    /\ IsFrame(sent[2])
    /\ Len(decoded) = 1
    /\ turnContent # <<>>

\* C12: no message's content contains the text "undefined".
C12_NoUndefinedArtifact ==
    \A m \in DOMAIN messages :
        \A j \in DOMAIN messages[m].content :
            messages[m].content[j] # UndefinedText[1]

\* the increment a text-delta event carries: under textDelta, or under text,
\* or none
textIncrement(data) ==
    IF data.textDelta # <<>> THEN data.textDelta[1].chars
    ELSE IF data.text # <<>> THEN data.text[1].chars
    ELSE <<>>

RECURSIVE concatIncrements(_)
concatIncrements(events) ==
    IF events = <<>> THEN <<>>
    ELSE (IF TypeOf(Head(events)) = "text-delta" THEN textIncrement(Head(events))
          ELSE <<>>) \o concatIncrements(Tail(events))

\* C13: the assistant message's content is the concatenation, in arrival
\* order, of the increments of the text-delta events decoded so far, and
\* during the stream it only grows by appending.
C13_ContentIsConcatenation ==
    /\ [](InTurn => turnContent = concatIncrements(decoded))
    /\ [][ (pc = "reading" /\ pc' = "reading")
            => IsPrefix(turnContent, messages'[assistantIndex].content) ]_vars

(***************************************************************************)
(* Claims about tool calls and turns                                       *)
(***************************************************************************)
\* a chunk of one line that decoded to a tool-call
ReadOneToolCall ==
    /\ pc = "reading"
    /\ Len(sent') = Len(sent) + 1
    /\ Len(decoded') = Len(decoded) + 1
    /\ IsToolCall(decoded'[Len(decoded')])

PendingInvocation(data) ==
    [toolName |-> data.toolName, state |-> "call", args |-> data.args, result |-> <<>>]

\* C14: a tool-call event appends one pending invocation with the event's
\* toolName and args at the end of the assistant message's list and changes
\* nothing else of the message; so the list has one invocation for each
\* tool-call decoded, in order, with that call's toolName and args.
C14_ToolCallAppendsPending ==
    /\ [](InTurn =>
            LET calls == SelectSeq(decoded, IsToolCall)
            IN  /\ Len(turnInvocations) = Len(calls)
                /\ \A i \in DOMAIN calls :
                    /\ turnInvocations[i].toolName = calls[i].toolName
                    /\ turnInvocations[i].args = calls[i].args)
    /\ [][ ReadOneToolCall =>
            messages' = [messages EXCEPT ![assistantIndex].toolInvocations =
                            Append(@, PendingInvocation(decoded'[Len(decoded')]))] ]_vars

\* C14: a tool-call was appended behind an invocation that had its result
C14_Witness ==
    /\ InTurn
    /\ Len(turnInvocations) = 2
    /\ turnInvocations[1].state = "result"
    /\ turnInvocations[1].toolName = <<JsonToken("read_file")>>
    /\ turnInvocations[2] = PendingInvocation(ToolCallEvent("write_file"))

IsAssistant(message) == message.role = "assistant"

\* C15: a turn adds exactly one message of role assistant to the transcript,
\* however it ends.  (One turn: the transcript was empty before it.)
C15_OneAssistantMessagePerTurn ==
    (pc = "idle" /\ messages # <<>>) => Len(SelectSeq(messages, IsAssistant)) = 1

\* C16: once isLoading is set it is eventually cleared.
C16_LoadingEventuallyCleared == isLoading ~> ~ isLoading

\* C16: the connection dropped in the middle of the stream and the turn ended
C16_Witness ==
    /\ pc = "idle"
    /\ ~ isLoading
    /\ Len(messages) = 3
    /\ messages[3] = ApologyMessage
    /\ Len(decoded) >= 1
    /\ wire # <<>>

(***************************************************************************)
(* Claims about the request                                                *)
(***************************************************************************)
\* an assistant message whose content is empty or only whitespace
Omitted(message) ==
    /\ message.role = "assistant"
    /\ \A j \in DOMAIN message.content : message.content[j] \in {" ", LF}

RECURSIVE keptInOrder(_)
keptInOrder(msgs) ==
    IF msgs = <<>> THEN <<>>
    ELSE (IF Omitted(Head(msgs)) THEN <<>>
          ELSE <<[role |-> Head(msgs).role, content |-> Head(msgs).content]>>)
         \o keptInOrder(Tail(msgs))

\* C17: the messages sent to the server are those of the transcript, in
\* order, without exactly the assistant messages whose content is empty or
\* whitespace-only.
C17_RequestOmitsBlankAssistant ==
    pc = "fetching" => requestBody = keptInOrder(messages)

\* C17: a request was built from a transcript with a user message of empty
\* content, a blank assistant message and an assistant message with text
C17_Witness ==
    /\ pc = "fetching"
    /\ Len(messages) = 4
    /\ messages[1] = UserMessage(<<>>)
    /\ messages[2] = [NewAssistantMessage EXCEPT !.content = <<" ">>]
    /\ messages[3] = [NewAssistantMessage EXCEPT !.content = <<" ", "a">>]
    /\ Len(requestBody) = 3

(***************************************************************************)
(* Claims about the agent loop                                             *)
(***************************************************************************)
\* C18: the loop of one chat request terminates: it never runs more than the
\* step budget, it ends at a step without tool calls or, when every step
\* requested tool calls, after exactly StepBudget steps, and it does end.
C18_AgentLoopTerminates ==
    /\ [](stepCount <= StepBudget)
    /\ [](agentPc = "done" => (stepCalls = 0 \/ stepCount = StepBudget))
    /\ [](agentPc = "inferring" => (stepCount < StepBudget /\ (stepCount > 0 => stepCalls > 0)))
    /\ <>(agentPc = "done")

\* C18: every step requested tool calls and the loop stopped at the budget
C18_Witness ==
    /\ agentPc = "done"
    /\ stepCalls > 0
    /\ stepCount = StepBudget
    /\ toolCallsRun >= StepBudget

(***************************************************************************)
(* Claims about rename_file and create_directory                           *)
(***************************************************************************)
\* C19: rename_file validates both paths before the move: when the source or
\* the destination escapes the root, the file system is left as it was and
\* the result is a failure envelope.
C19_RenameValidatesBothEndpoints ==
    (lastTool = "rename_file" /\ \E i \in DOMAIN lastArgs : Escapes(lastArgs[i])) =>
        /\ fs = fsBefore
        /\ lastOutcome.kind = "returned"
        /\ ~ lastOutcome.success

\* the directory entry a path argument names
argKey(p) == key(resolve(LOCAL_PATH, p))

CreatedDirectory == lastTool = "create_directory" /\ lastOutcome.error # "EACCES"

\* C20: create_directory is idempotent: on a path inside the root that is
\* already a directory it returns success and leaves the file system as it
\* is; and after a call that returned success the path is a directory, so a
\* second call in a row returns success too and changes nothing.  (The call
\* is one the file system does not refuse for want of permission.)
C20_CreateDirectoryIdempotent ==
    /\ (CreatedDirectory /\ ~ Escapes(lastArgs[1]) /\ isDir(fsBefore, argKey(lastArgs[1])))
            => (lastOutcome.success /\ fs = fsBefore)
    /\ (CreatedDirectory /\ ~ Escapes(lastArgs[1]) /\ lastOutcome.success)
            => isDir(fs, argKey(lastArgs[1]))

\* C20: create_directory was called on a directory inside the root that was
\* there before the call
C20_Witness ==
    /\ lastTool = "create_directory"
    /\ lastArgs = << <<"s", "/", "s">> >>
    /\ isDir(fsBefore, argKey(lastArgs[1]))
    /\ lastOutcome = SuccessEnvelope(<<>>, {})
    /\ fs = fsBefore

(***************************************************************************)
(* Claims about delete_file, write_file and read_file                      *)
(***************************************************************************)
\* C21: delete_file returns an envelope; a success is the removal of exactly
\* the file at the path; a target that is a directory or missing gives a
\* failure, and every failure leaves the file system as it was; a file inside
\* the root, when the file system does not refuse access, is removed.
C21_DeleteFileRemovesOneFile ==
    lastTool = "delete_file" =>
        LET k == argKey(lastArgs[1])
        IN  /\ lastOutcome.kind = "returned"
            /\ lastOutcome.success =>
                    /\ isFile(fsBefore, k)
                    /\ DOMAIN fs = DOMAIN fsBefore \ {k}
                    /\ \A q \in DOMAIN fs : fs[q] = fsBefore[q]
            /\ (~ exists(fsBefore, k) \/ isDir(fsBefore, k)) => ~ lastOutcome.success
            /\ ~ lastOutcome.success => fs = fsBefore
            /\ (isFile(fsBefore, k) /\ ~ Escapes(lastArgs[1]) /\ lastOutcome.error # "EACCES")
                    => lastOutcome.success

\* C21: delete_file was called on a directory
C21_Witness ==
    /\ lastTool = "delete_file"
    /\ isDir(fsBefore, argKey(lastArgs[1]))
    /\ lastOutcome = FailureEnvelope("EISDIR")
    /\ fs = fsBefore

\* C22: write_file on a path inside the root creates the missing parent
\* directories and writes the file (it succeeds unless the path is a
\* directory, lies below a file, or the file system refuses access); after a
\* successful write_file, with no write, delete or rename of the path since,
\* read_file of the path returns exactly the content written.
C22_ReadReturnsWritten ==
    LET k == argKey(lastArgs[1])
    IN  /\ (lastTool = "write_file" /\ ~ Escapes(lastArgs[1])) =>
                /\ lastOutcome.success =>
                        /\ isFile(fs, k)
                        /\ \A a \in properAncestors(k) : isDir(fs, a)
                        /\ <<k, fs[k].content>> \in written
                /\ ( /\ ~ isDir(fsBefore, k)
                     /\ ~ fileAncestor(fsBefore, k)
                     /\ lastOutcome.error # "EACCES" ) => lastOutcome.success
        /\ (lastTool = "read_file" /\ ~ Escapes(lastArgs[1])) =>
                \A w \in written :
                    (w[1] = k /\ lastOutcome.error # "EACCES")
                        => lastOutcome = SuccessEnvelope(<<w[2]>>, {})

\* C22: a file written below a directory that did not exist was read back
C22_Witness ==
    /\ lastTool = "read_file"
    /\ lastArgs = << <<"s", "/", "s">> >>
    /\ ~ exists(InitialFs, parentKey(argKey(lastArgs[1])))
    /\ <<argKey(lastArgs[1]), "y">> \in written
    /\ lastOutcome = SuccessEnvelope(<<"y">>, {})

(***************************************************************************)
(* Claims about paths inside the root                                      *)
(***************************************************************************)
\* the segments never climb above where they start
RECURSIVE neverClimbs(_, _)
neverClimbs(segs, depth) ==
    IF segs = <<>> THEN TRUE
    ELSE IF Head(segs) = <<".", ".">>
    THEN depth > 0 /\ neverClimbs(Tail(segs), depth - 1)
    ELSE IF Head(segs) = <<>> \/ Head(segs) = <<".">>
    THEN neverClimbs(Tail(segs), depth)
    ELSE neverClimbs(Tail(segs), depth + 1)

StaysWithinRoot(p) ==
    /\ ~ startsWith(p, <<"/">>)
    /\ neverClimbs(split(p, "/"), 0)

\* C23: a relative path that stays within the root (nested, with ".." that
\* never climbs above the root, or empty) is resolved, not denied, to the
\* root or to a path that starts with the root and "/"; the empty path to the
\* root itself.
C23_InsidePathsResolve ==
    (validated # <<>> /\ StaysWithinRoot(filePath)) =>
        /\ ~ validated[1].threw
        /\ \/ validated[1].value = LOCAL_PATH
           \/ startsWith(validated[1].value, LOCAL_PATH \o <<"/">>)
        /\ filePath = <<>> => validated[1].value = LOCAL_PATH

\* C23: the checking server resolved a path that climbs back to the root
C23_Witness ==
    /\ serverBuild = "part_000"
    /\ filePath = <<"s", "/", ".", ".">>
    /\ validated = <<Returned(LOCAL_PATH)>>

(***************************************************************************)
(* Claims about the server's response stream                               *)
(***************************************************************************)
\* C25: the bytes the server has enqueued are, in the order the events were
\* yielded, one line per event: the text of the bytes split at line feeds
\* has one segment per event and an empty one after the last line feed; the
\* i-th segment is the marker "0:" followed by the JSON text of the i-th
\* event, and parses to that event.
C25_OneLinePerEvent ==
    \A text \in { utf8DecodeFrom(enqueued, <<>>) } :
    \A lines \in { split(text.chars, LF) } :
        /\ text.pending = <<>>
        /\ Len(lines) = Len(produced) + 1
        /\ lines[Len(lines)] = <<>>
        /\ \A i \in DOMAIN produced :
                /\ startsWith(lines[i], Marker)
                /\ payload(lines[i]) = stringify(produced[i])
                /\ parse(payload(lines[i])) = [ok |-> TRUE, value |-> produced[i]]
        /\ serverPc = "none" => enqueued = <<>>

\* C25: the server enqueued two events, the first with a line feed and a
\* two-byte character in its text, and closed the stream
C25_Witness ==
    /\ serverPc = "closed"
    /\ Len(produced) = 2
    /\ produced[1] = TextDeltaEvent(<<E_ACUTE, LF>>)
    /\ produced[2] = ToolCallEvent("read_file")
    /\ enqueued = utf8Encode(frame(produced[1]) \o <<LF>> \o frame(produced[2]) \o <<LF>>)

\* C29: a response stream that has started is closed in the end, whether the
\* iteration over the events ends or throws; closing it enqueues and drops
\* nothing, and once it is closed it stays closed with nothing more enqueued;
\* a client that reads it to the end has received every byte enqueued, those
\* enqueued before a failure included.
C29_StreamClosedOnce ==
    /\ (serverPc = "streaming") ~> (serverPc = "closed")
    /\ [][(serverPc = "streaming" /\ serverPc' # "streaming")
              => (serverPc' = "closed" /\ enqueued' = enqueued /\ wire' = wire)]_vars
    /\ [][serverPc = "closed"
              => (serverPc' = "closed" /\ enqueued' = enqueued /\ produced' = produced)]_vars
    /\ [](serverPc # "streaming" => (serverPc = "closed" \/ enqueued = <<>>))
    /\ []((pc = "idle" /\ serverPc = "closed" /\ Len(messages) = 2)
              => (utf8Encode(received) = enqueued /\ decoded = produced))

\* C29: the iteration threw after an event was enqueued, the stream was
\* closed and the client read the event and then the end of the stream
C29_Witness ==
    /\ streamError
    /\ serverPc = "closed"
    /\ Len(produced) = 1
    /\ pc = "idle"
    /\ Len(messages) = 2
    /\ decoded = produced

(***************************************************************************)
(* Claims about the turn's failures and the transcript                     *)
(***************************************************************************)
\* C26: when the request fails before a stream has started (fetch rejects,
\* the response is not OK, or it has no readable body), the transcript ends
\* with the user's message followed by exactly one apology, no assistant
\* message with empty content is left in it, and loading is over.
C26_RequestFailureApologizes ==
    (pc = "idle" /\ messages # <<>> /\ serverPc = "none") =>
        /\ Len(messages) >= 2
        /\ messages[Len(messages)] = ApologyMessage
        /\ messages[Len(messages) - 1] = UserMessage(<<"h", "i">>)
        /\ \A i \in DOMAIN messages :
                /\ messages[i] # NewAssistantMessage
                /\ i < Len(messages) => messages[i] # ApologyMessage
        /\ ~ isLoading

\* C26: the turn's request failed before a stream started
C26_Witness ==
    /\ pc = "idle"
    /\ serverPc = "none"
    /\ requestBody # <<>>
    /\ messages = <<UserMessage(<<"h", "i">>), ApologyMessage>>
    /\ ~ isLoading

\* C27: the transcript only grows at its end, and a message changes only
\* while its own turn is reading its stream: the one message events are
\* applied to is the last of the transcript, the assistant message pushed
\* behind the turn's user message; every other message, those of the turns
\* before included, stays what it was.
C27_TranscriptOnlyGrows ==
    [][ /\ Len(messages') >= Len(messages)
        /\ \A i \in DOMAIN messages :
                \/ messages'[i] = messages[i]
                \/ (pc = "reading" /\ pc' = "reading" /\ i = assistantIndex)
        /\ pc' = "reading" =>
                /\ assistantIndex' = Len(messages')
                /\ IsAssistant(messages'[assistantIndex'])
                /\ messages'[assistantIndex' - 1].role = "user" ]_vars

\* C27: the second turn has applied its whole stream to its own message,
\* and the first turn's message is what the first turn made it
C27_Witness ==
    /\ Len(messages) = 4
    /\ pc = "reading"
    /\ Len(sent) = Len(TurnScript)
    /\ messages[2] # NewAssistantMessage
    /\ messages[4] = messages[2]

\* C28: a request is issued and a user message appended only by a submit
\* while nothing is loading and the input is not blank; a turn in flight is
\* loading, so no second turn starts beside it; with a blank input and
\* nothing loading a submit changes neither the transcript nor the loading
\* flag and issues no request.
C28_OneTurnInFlight ==
    [][ /\ ( \/ userTurns' # userTurns
             \/ requestBody' # requestBody
             \/ (pc # "fetching" /\ pc' = "fetching") )
                => (~ isLoading /\ pc = "idle" /\ ~ isBlank(input))
        /\ pc' # "idle" => isLoading'
        /\ isLoading => (input' = input /\ userTurns' = userTurns)
        /\ (isBlank(input) /\ ~ isLoading)
                => (messages' = messages /\ requestBody' = requestBody /\ ~ isLoading') ]_vars

\* C28: a second turn is in flight, where a submit is ignored
C28_Witness ==
    /\ isLoading
    /\ pc = "reading"
    /\ userTurns = 2
    /\ ENABLED SubmitIgnored

\* C24: once the user has abandoned a turn, no further chunk of its stream
\* is consumed and no event is applied to its assistant message.
C24_AbandonedStreamNotConsumed ==
    [][(abandoned /\ pc = "reading" /\ pc' = "reading")
          => (received' = received /\ decoded' = decoded /\ messages' = messages)]_vars

(***************************************************************************)
(* Claims about the line buffer                                            *)
(***************************************************************************)
\* C30: the events parsed are those of the complete lines of the text
\* received, the segments before its last line feed; the text after the last
\* line feed is the buffer, and is not parsed, neither while the stream is
\* read nor when it ends: a stream that ends inside a line has contributed
\* its complete lines only.
C30_OnlyCompleteLinesApplied ==
    InTurn =>
        \A segs \in { split(received, LF) } :
            /\ buffer = segs[Len(segs)]
            /\ decoded = wellFormedData(SubSeq(segs, 1, Len(segs) - 1))
            /\ messages[assistantIndex] = applyAll(NewAssistantMessage, decoded)

\* C30: the stream ended behind a whole frame that lacked its line feed,
\* after one complete line was applied
C30_Witness ==
    /\ pc = "idle"
    /\ serverPc = "closed"
    /\ wire = <<>>
    /\ Len(decoded) = 1
    /\ buffer = frame(TextDeltaEvent(<<"a">>))

(***************************************************************************)
(* Claims about events of other types                                      *)
(***************************************************************************)
IsOtherEvent(data) == TypeOf(data) \notin {"text-delta", "tool-call", "tool-result"}

IsDispatched(data) == ~ IsOtherEvent(data)

\* C31: a well-formed frame whose type is none of text-delta, tool-call and
\* tool-result changes neither the content nor the invocation list of the
\* assistant message and does not stop the decoding: the message is what the
\* events of the three types decoded so far make of it, as if the others had
\* not been sent, nothing is reported as an error, and once every byte is
\* read every event produced, those behind an event of another type
\* included, has been decoded.
C31_OtherEventsIgnored ==
    InTurn =>
        /\ messages[assistantIndex]
                = applyAll(NewAssistantMessage, SelectSeq(decoded, IsDispatched))
        /\ loggedErrors = 0
        /\ wire = <<>> => decoded = produced
        /\ (\A i \in DOMAIN decoded : IsOtherEvent(decoded[i]))
                => messages[assistantIndex] = NewAssistantMessage

\* C31: a finish event was decoded, and the tool-call behind it applied
C31_Witness ==
    /\ InTurn
    /\ wire = <<>>
    /\ produced = <<FinishEvent, ToolCallEvent("read_file")>>
    /\ decoded = produced
    /\ Len(messages[assistantIndex].toolInvocations) = 1
    /\ messages[assistantIndex].content = <<>>

====
